---- MODULE Spec2Model ----
(***************************************************************************)
(* The simulated task engine and the dataset store of the NPD backend.     *)
(*                                                                         *)
(* routes/tasks.py    start/get of Tasks and the two background workers    *)
(* routes/datasets.py Dataset and DatasetSample handlers                   *)
(* routes/generate.py the /generate endpoint (shares the global generator) *)
(*                                                                         *)
(* Execution model.  Coroutines (the async handlers, the workers) run on   *)
(* one event loop: a coroutine keeps the loop from one await to the next,  *)
(* so `loop` names the worker that holds it (0: the loop is free).  The    *)
(* handlers written as plain functions run on pool threads, at any time;   *)
(* they see the store as of the last commit.  A worker's commits are       *)
(* therefore separate steps even inside one loop segment.                  *)
(***************************************************************************)
EXTENDS Integers, Sequences, FiniteSets, TLC

VARIABLES
    datasets,   \* table Dataset: set of rows [id, dataset_id, description]
    samples,    \* table DatasetSample: set of rows [id, dataset_fk, text]
    tasks,      \* table Task: task_id -> row, or NoTask
    workers,    \* task_id -> the background coroutine created for it
    loop,       \* the worker holding the event loop, 0 when it is free
    rng,        \* state of the process-wide generator of module random
    resp,       \* the last HTTP response sent
    models,     \* rows of Model: [id, model_id, active_version_fk]
    versions,   \* rows of ModelVersion: [id, model_fk, state]
    inflight,   \* pool thread -> the create_dataset request it is serving
    DATASETS,   \* main.py: the dataset ids held in memory
    JOBS,       \* main.py: job_id -> Job, or NoJob
    jobs        \* main.py: job_id -> position of the coroutine run for the Job

vars == <<datasets, samples, tasks, workers, loop, rng, resp, models, versions,
          inflight, DATASETS, JOBS, jobs>>

----------------------------------------------------------------------------
(* Bounds of the model *)

MaxTasks == 2
MaxEpochs == 2
MaxSamples == 2

(* Inputs *)

DatasetIds == {"d1", "d2"}
ModelTags == {"m1"}
DefaultModelTag == "baseline_stub_v0"
Descriptions == {"None", "a"}
Texts == {"x", "y"}
TaskIds == 1 .. MaxTasks
EpochCounts == 0 .. MaxEpochs
DefaultSeed == 42
GenerateSeed == 123

None == "None"
Now == "ts"

----------------------------------------------------------------------------
(* Numbers.  A float p/q is kept as the reduced pair <<p, q>>. *)

RECURSIVE Gcd(_, _)
Gcd(a, b) == IF b = 0 THEN a ELSE Gcd(b, a % b)

Frac(p, q) == LET g == Gcd(p, q) IN <<p \div g, q \div g>>

Zero == <<0, 1>>
One == <<1, 1>>

FracLeq(x, y) == x[1] * y[2] <= y[1] * x[2]

----------------------------------------------------------------------------
(* json.dumps / json.loads of the blobs kept in a Task row *)

JsonDumps(v) == [json |-> v]
JsonLoads(s) == s.json

EmptyDict == [k \in {} |-> 0]
EmptyList == << >>

----------------------------------------------------------------------------
(* The generator of module random: the stream is a function of the seed,  *)
(* and a draw is named by the seed and its index in the stream.           *)

OsSeed == 0

Seeded(s) == [seed |-> s, n |-> 0]

Draw(g) == <<g.seed, g.n + 1>>

Advance(g, k) == [g EXCEPT !.n = @ + k]

----------------------------------------------------------------------------
\* what a query that finds no row returns
NoRow == [id |-> 0]
NoTask == [task_id |-> 0, state |-> "none"]
NoBlob == [none |-> TRUE]
NoHp == [epochs |-> 0, seed |-> 0]
NoWorker == [pc |-> "none", fn |-> "none", hp |-> NoHp, i |-> 0, history |-> << >>]
NoResp == [op |-> "none"]
\* the threads of the pool that runs the handlers written as plain functions
Threads == {"th1", "th2"}
Idle == [pc |-> "idle"]
\* main.py: the keys of JOBS, and the entry of a key that is absent
JobIds == {"j1", "j2"}
NoJob == [job_id |-> "None", state |-> "none"]

Init ==
    /\ datasets = {}
    /\ samples = {}
    /\ tasks = [t \in TaskIds |-> NoTask]
    /\ workers = [t \in TaskIds |-> NoWorker]
    /\ loop = 0
    /\ rng = Seeded(OsSeed)
    /\ resp = NoResp
    /\ models = {}
    /\ versions = {}
    /\ inflight = [th \in Threads |-> Idle]
    /\ DATASETS = {}
    /\ JOBS = [j \in JobIds |-> NoJob]
    /\ jobs = [j \in JobIds |-> "none"]

----------------------------------------------------------------------------
(* routes/datasets.py *)

\* select(Dataset).where(Dataset.dataset_id == dataset_id) ... .first()
DatasetById(d) ==
    IF \E r \in datasets : r.dataset_id = d
    THEN CHOOSE r \in datasets : r.dataset_id = d
    ELSE NoRow

\* select(DatasetSample).where(DatasetSample.dataset_fk == pk) ... .all()
SamplesOf(pk) == {s \in samples : s.dataset_fk = pk}

\* the integer primary key the store gives a new row
NextId(rows) ==
    IF rows = {} THEN 1
    ELSE (CHOOSE r \in rows : \A q \in rows : q.id <= r.id).id + 1

DatasetSampleOut(r) == [id |-> r.id, text |-> r.text]

\* (variant: an existing identifier is overwritten instead of refused)
create_dataset_upsert(d, description, has_samples) ==
    /\ datasets' = {r \in datasets : r.dataset_id # d} \cup
          {[id |-> NextId(datasets), dataset_id |-> d, description |-> description]}
    /\ resp' = [op |-> "create_dataset", dataset_id |-> d,
                code |-> IF DatasetById(d) # NoRow THEN 409 ELSE 200]
    /\ UNCHANGED <<samples, tasks, workers, loop, rng, models, versions, inflight,
                 DATASETS, JOBS, jobs>>

\* The helper _add_samples is commented out in the module, so the call in
\* create_dataset raises NameError after the Dataset row was committed.
create_dataset(d, description, has_samples) ==
    /\ IF DatasetById(d) # NoRow
       THEN /\ resp' = [op |-> "create_dataset", dataset_id |-> d, code |-> 409]
            /\ UNCHANGED datasets
       ELSE /\ datasets' = datasets \cup
                  {[id |-> NextId(datasets), dataset_id |-> d,
                    description |-> description]}
            /\ resp' = [op |-> "create_dataset", dataset_id |-> d,
                        code |-> IF has_samples THEN 500 ELSE 200]
    /\ UNCHANGED <<samples, tasks, workers, loop, rng, models, versions, inflight,
                 DATASETS, JOBS, jobs>>

get_dataset(d) ==
    /\ resp' = IF DatasetById(d) = NoRow
               THEN [op |-> "get_dataset", dataset_id |-> d, code |-> 404]
               ELSE [op |-> "get_dataset", dataset_id |-> d, code |-> 200,
                     body |-> DatasetById(d)]
    /\ UNCHANGED <<datasets, samples, tasks, workers, loop, rng, models, versions, inflight,
                 DATASETS, JOBS, jobs>>

\* session.exec(select(...)) returns a result object that has no delete():
\* the call raises AttributeError before session.delete(ds) and the commit.
delete_dataset(d) ==
    /\ resp' = [op |-> "delete_dataset", dataset_id |-> d,
                code |-> IF DatasetById(d) = NoRow THEN 404 ELSE 500]
    /\ UNCHANGED <<datasets, samples, tasks, workers, loop, rng, models, versions, inflight,
                 DATASETS, JOBS, jobs>>

update_dataset(d, description) ==
    /\ IF DatasetById(d) = NoRow
       THEN /\ resp' = [op |-> "update_dataset", dataset_id |-> d, code |-> 404]
            /\ UNCHANGED datasets
       ELSE LET ds == DatasetById(d)
                new == IF description # None
                       THEN [ds EXCEPT !.description = description]
                       ELSE ds
            IN /\ datasets' = (datasets \ {ds}) \cup {new}
               /\ resp' = [op |-> "update_dataset", dataset_id |-> d,
                           code |-> 200, body |-> new]
    /\ UNCHANGED <<samples, tasks, workers, loop, rng, models, versions, inflight,
                 DATASETS, JOBS, jobs>>

get_dataset_samples(d) ==
    /\ resp' = IF DatasetById(d) = NoRow
               THEN [op |-> "get_dataset_samples", dataset_id |-> d, code |-> 404]
               ELSE [op |-> "get_dataset_samples", dataset_id |-> d, code |-> 200,
                     body |-> {DatasetSampleOut(r) : r \in SamplesOf(DatasetById(d).id)}]
    /\ UNCHANGED <<datasets, samples, tasks, workers, loop, rng, models, versions, inflight,
                 DATASETS, JOBS, jobs>>

create_sample(d, text) ==
    /\ NextId(samples) <= MaxSamples
    /\ IF DatasetById(d) = NoRow
       THEN /\ resp' = [op |-> "create_sample", dataset_id |-> d, code |-> 404]
            /\ UNCHANGED samples
       ELSE LET row == [id |-> NextId(samples), dataset_fk |-> DatasetById(d).id,
                        text |-> text]
            IN /\ samples' = samples \cup {row}
               /\ resp' = [op |-> "create_sample", dataset_id |-> d, code |-> 200,
                           body |-> DatasetSampleOut(row)]
    /\ UNCHANGED <<datasets, tasks, workers, loop, rng, models, versions, inflight,
                 DATASETS, JOBS, jobs>>

\* session.get(DatasetSample, sample_id), then the check of its dataset_fk
SampleIn(d, sample_id) ==
    IF DatasetById(d) # NoRow
       /\ \E r \in samples : r.id = sample_id /\ r.dataset_fk = DatasetById(d).id
    THEN CHOOSE r \in samples : r.id = sample_id
    ELSE NoRow

update_sample(d, sample_id, text) ==
    /\ IF SampleIn(d, sample_id) = NoRow
       THEN /\ resp' = [op |-> "update_sample", dataset_id |-> d, code |-> 404]
            /\ UNCHANGED samples
       ELSE LET row == SampleIn(d, sample_id)
                new == IF text # None THEN [row EXCEPT !.text = text] ELSE row
            IN /\ samples' = (samples \ {row}) \cup {new}
               /\ resp' = [op |-> "update_sample", dataset_id |-> d, code |-> 200,
                           body |-> DatasetSampleOut(new)]
    /\ UNCHANGED <<datasets, tasks, workers, loop, rng, models, versions, inflight,
                 DATASETS, JOBS, jobs>>

delete_sample(d, sample_id) ==
    /\ IF SampleIn(d, sample_id) = NoRow
       THEN /\ resp' = [op |-> "delete_sample", dataset_id |-> d, code |-> 404]
            /\ UNCHANGED samples
       ELSE /\ samples' = samples \ {SampleIn(d, sample_id)}
            /\ resp' = [op |-> "delete_sample", dataset_id |-> d, code |-> 200]
    /\ UNCHANGED <<datasets, tasks, workers, loop, rng, models, versions, inflight,
                 DATASETS, JOBS, jobs>>

\* create_dataset as two requests on two pool threads run it: the lookup and
\* the commit are separate steps, and another thread may commit in between.
\* (create_dataset above is the two steps with nothing in between.)
create_dataset_select(th, d, description, has_samples) ==
    /\ inflight[th] = Idle
    /\ IF DatasetById(d) # NoRow
       THEN /\ resp' = [op |-> "create_dataset", dataset_id |-> d, code |-> 409]
            /\ UNCHANGED inflight
       ELSE /\ inflight' = [inflight EXCEPT ![th] =
                  [pc |-> "commit", dataset_id |-> d,
                   description |-> description, has_samples |-> has_samples]]
            /\ UNCHANGED resp
    /\ UNCHANGED <<datasets, samples, tasks, workers, loop, rng, models, versions,
                 DATASETS, JOBS, jobs>>

\* session.add(ds); session.commit().  Dataset.dataset_id has a unique index:
\* the INSERT of an identifier another request has committed meanwhile raises
\* IntegrityError, which the handler does not catch (500).
create_dataset_commit(th) ==
    /\ inflight[th] # Idle
    /\ LET req == inflight[th]
       IN IF DatasetById(req.dataset_id) # NoRow
          THEN /\ resp' = [op |-> "create_dataset", dataset_id |-> req.dataset_id,
                           code |-> 500]
               /\ UNCHANGED datasets
          ELSE /\ datasets' = datasets \cup
                     {[id |-> NextId(datasets), dataset_id |-> req.dataset_id,
                       description |-> req.description]}
               /\ resp' = [op |-> "create_dataset", dataset_id |-> req.dataset_id,
                           code |-> IF req.has_samples THEN 500 ELSE 200]
    /\ inflight' = [inflight EXCEPT ![th] = Idle]
    /\ UNCHANGED <<samples, tasks, workers, loop, rng, models, versions,
                 DATASETS, JOBS, jobs>>

RaceNext ==
    \/ \E th \in Threads, d \in DatasetIds, desc \in Descriptions,
          has_samples \in BOOLEAN : create_dataset_select(th, d, desc, has_samples)
    \/ \E th \in Threads : create_dataset_commit(th)
    \/ \E d \in DatasetIds : get_dataset(d)
    \/ \E d \in DatasetIds, desc \in Descriptions : update_dataset(d, desc)

RaceSpec == Init /\ [][RaceNext]_vars

DataNext ==
    \/ \E d \in DatasetIds, desc \in Descriptions, has_samples \in BOOLEAN :
          create_dataset(d, desc, has_samples)
    \/ \E d \in DatasetIds : get_dataset(d)
    \/ \E d \in DatasetIds : delete_dataset(d)
    \/ \E d \in DatasetIds, desc \in Descriptions : update_dataset(d, desc)
    \/ \E d \in DatasetIds : get_dataset_samples(d)
    \/ \E d \in DatasetIds, text \in Texts : create_sample(d, text)
    \/ \E d \in DatasetIds, sid \in 1 .. MaxSamples, text \in Texts \cup {None} :
          update_sample(d, sid, text)
    \/ \E d \in DatasetIds, sid \in 1 .. MaxSamples : delete_sample(d, sid)

DataSpec == Init /\ [][DataNext]_vars

----------------------------------------------------------------------------
(* models/api.py *)

Hyperparameters(epochs, seed) == [epochs |-> epochs, seed |-> seed]

TrainSeeds == {DefaultSeed}
NumCandidates == {3}

----------------------------------------------------------------------------
(* routes/tasks.py: the public endpoints *)

Terminal == {"succeeded", "failed"}

\* uuid.uuid4().hex: an identifier no Task has yet
FreshIds == {t \in TaskIds : tasks[t] = NoTask}
Uuid4 == CHOOSE t \in FreshIds : \A u \in FreshIds : t <= u

\* (variant: the row is created already running)
TaskCreatedRunning(task_id, type, message, model_tag, d, hp_json) ==
    [task_id |-> task_id, type |-> type, state |-> "running",
     created_at |-> Now, started_at |-> Now, ended_at |-> None,
     progress |-> Zero, message |-> <<message>>,
     model_tag |-> model_tag, dataset_id |-> d,
     hyperparameters_json |-> hp_json,
     metrics_json |-> JsonDumps(EmptyDict),
     history_json |-> JsonDumps(EmptyList)]

Task(task_id, type, message, model_tag, d, hp_json) ==
    [task_id |-> task_id, type |-> type, state |-> "queued",
     created_at |-> Now, started_at |-> None, ended_at |-> None,
     progress |-> Zero, message |-> <<message>>,
     model_tag |-> model_tag, dataset_id |-> d,
     hyperparameters_json |-> hp_json,
     metrics_json |-> JsonDumps(EmptyDict),
     history_json |-> JsonDumps(EmptyList)]

\* _task_to_response; the model keeps the fields a poller reads: the state
\* and the progress
task_to_response(row) ==
    [task_id |-> row.task_id, state |-> row.state, progress |-> row.progress]

\* asyncio.create_task(worker(task_id)): the coroutine is made, not yet run
create_task(fn, task_id) ==
    [workers EXCEPT ![task_id] = [NoWorker EXCEPT !.pc = "scheduled", !.fn = fn]]

\* (variant: the Task is persisted and the worker created before the
\* dataset is looked up)
start_training_unchecked(model_tag, d, hp) ==
    /\ loop = 0
    /\ FreshIds # {}
    /\ LET task == Task(Uuid4, "train", "Queued for training",
                        model_tag, d, JsonDumps(hp))
       IN /\ tasks' = [tasks EXCEPT ![Uuid4] = task]
          /\ workers' = create_task("_temp_training_worker", Uuid4)
          /\ resp' = IF DatasetById(d) = NoRow
                     THEN [op |-> "start_training", code |-> 404]
                     ELSE [op |-> "start_training", code |-> 200,
                           body |-> task_to_response(task)]
    /\ UNCHANGED <<datasets, samples, loop, rng, models, versions, inflight,
                 DATASETS, JOBS, jobs>>

start_training(model_tag, d, hp) ==
    /\ loop = 0
    /\ IF DatasetById(d) = NoRow
       THEN /\ resp' = [op |-> "start_training", code |-> 404]
            /\ UNCHANGED <<tasks, workers>>
       ELSE /\ FreshIds # {}
            /\ LET task == Task(Uuid4, "train", "Queued for training",
                                model_tag, d, JsonDumps(hp))
               IN /\ tasks' = [tasks EXCEPT ![Uuid4] = task]
                  /\ workers' = create_task("_temp_training_worker", Uuid4)
                  /\ resp' = [op |-> "start_training", code |-> 200,
                              body |-> task_to_response(task)]
    /\ UNCHANGED <<datasets, samples, loop, rng, models, versions, inflight,
                 DATASETS, JOBS, jobs>>

get_training_task(task_id) ==
    /\ resp' = IF tasks[task_id] = NoTask
               THEN [op |-> "get_task", task_id |-> task_id, code |-> 404]
               ELSE [op |-> "get_task", task_id |-> task_id, code |-> 200,
                     body |-> task_to_response(tasks[task_id])]
    /\ UNCHANGED <<datasets, samples, tasks, workers, loop, rng, models, versions, inflight,
                 DATASETS, JOBS, jobs>>

start_evaluation(model_tag, d) ==
    /\ loop = 0
    /\ IF DatasetById(d) = NoRow
       THEN /\ resp' = [op |-> "start_evaluation", code |-> 404]
            /\ UNCHANGED <<tasks, workers>>
       ELSE /\ FreshIds # {}
            /\ LET task == Task(Uuid4, "evaluate", "Queued for evaluation",
                                model_tag, d, NoBlob)
               IN /\ tasks' = [tasks EXCEPT ![Uuid4] = task]
                  /\ workers' = create_task("_temp_evaluation_worker", Uuid4)
                  /\ resp' = [op |-> "start_evaluation", code |-> 200,
                              body |-> task_to_response(task)]
    /\ UNCHANGED <<datasets, samples, loop, rng, models, versions, inflight,
                 DATASETS, JOBS, jobs>>

get_evaluation_task(task_id) ==
    /\ resp' = IF tasks[task_id] = NoTask
               THEN [op |-> "get_task", task_id |-> task_id, code |-> 404]
               ELSE [op |-> "get_task", task_id |-> task_id, code |-> 200,
                     body |-> task_to_response(tasks[task_id])]
    /\ UNCHANGED <<datasets, samples, tasks, workers, loop, rng, models, versions, inflight,
                 DATASETS, JOBS, jobs>>

----------------------------------------------------------------------------
(* routes/tasks.py: the background workers.  Each action is the code from  *)
(* one commit to the next; `ok` is whether the commit succeeds.  After a   *)
(* failed commit the session refuses further work until rollback(), which  *)
(* the except block never calls: its session.get raises, nothing more is   *)
(* persisted and the coroutine ends.                                       *)

\* (variant: one progress step fewer)
FourSteps == 2 + 2

steps == 5

Exited(w) == [w EXCEPT !.pc = "exited"]

\* (variant: the start timestamp is not recorded)
RunningNoStart(row) == [row EXCEPT !.state = "running"]

\* row.state = "running"; row.started_at = time.time()
Running(row) == [row EXCEPT !.state = "running", !.started_at = Now]

\* (variant: a failure puts the task back in the queue)
FailedRequeued(row, what, e) ==
    [row EXCEPT !.state = "queued", !.ended_at = Now, !.message = <<what, e>>]

\* (variant: a failure leaves the end timestamp unset)
FailedNoEnd(row, what, e) ==
    [row EXCEPT !.state = "failed", !.message = <<what, e>>]

\* the except block: state, ended_at and message of the row just read
Failed(row, what, e) ==
    [row EXCEPT !.state = "failed", !.ended_at = Now, !.message = <<what, e>>]

\* (variant: the fraction of the steps completed before this one)
ProgressOffByOne(i, n) == Frac(i, n)

\* frac = (epoch + 1) / hp.epochs; row.progress = (i + 1) / steps
Progress(i, n) == Frac(i + 1, n)

\* Hyperparameters.parse_raw(row.hyperparameters_json), or the defaults
ParseHp(row) ==
    IF row.hyperparameters_json # NoBlob
    THEN JsonLoads(row.hyperparameters_json)
    ELSE Hyperparameters(5, DefaultSeed)

\* (variant: the entries are numbered from 0)
EpochEntryZeroBased(epoch, epochs, g) ==
    LET frac == Progress(epoch, epochs)
        loss == [frac |-> frac, u |-> Draw(g)]
    IN [epoch |-> epoch,
        loss |-> loss,
        accuracy |-> [frac |-> frac, u |-> Draw(Advance(g, 1))],
        perplexity |-> [exp |-> loss],
        style_score |-> [frac |-> frac, u |-> Draw(Advance(g, 2))]]

\* one epoch's metrics: three draws, in the order loss, accuracy, style
EpochEntry(epoch, epochs, g) ==
    LET frac == Progress(epoch, epochs)
        loss == [frac |-> frac, u |-> Draw(g)]
    IN [epoch |-> epoch + 1,
        loss |-> loss,
        accuracy |-> [frac |-> frac, u |-> Draw(Advance(g, 1))],
        perplexity |-> [exp |-> loss],
        style_score |-> [frac |-> frac, u |-> Draw(Advance(g, 2))]]

\* (variant: the first entry is reported instead of the last)
FirstMetrics(history) ==
    [k \in DOMAIN history[1] \ {"epoch"} |-> history[1][k]]

\* {k: v for k, v in history[-1].items() if k != "epoch"}
LastMetrics(history) ==
    LET last == history[Len(history)]
    IN [k \in DOMAIN last \ {"epoch"} |-> last[k]]

EpochMessage(e) ==
    <<"Epoch", e.epoch, e.loss, e.accuracy, e.perplexity, e.style_score>>

temp_training_worker_start(t) ==
    /\ workers[t].pc = "scheduled"
    /\ workers[t].fn = "_temp_training_worker"
    /\ loop = 0
    /\ IF tasks[t] = NoTask
       THEN /\ workers' = [workers EXCEPT ![t] = Exited(@)]
            /\ UNCHANGED <<tasks, loop, rng>>
       ELSE \E ok \in BOOLEAN :
            LET hp == ParseHp(tasks[t]) IN
            IF ok
            THEN /\ tasks' = [tasks EXCEPT ![t] = Running(@)]
                 /\ rng' = Seeded(hp.seed)
                 /\ IF hp.epochs >= 1
                    THEN /\ workers' = [workers EXCEPT ![t] =
                               [@ EXCEPT !.pc = "sleep", !.hp = hp, !.i = 0]]
                         /\ loop' = 0
                    ELSE /\ workers' = [workers EXCEPT ![t] =
                               [@ EXCEPT !.pc = "except", !.hp = hp]]
                         /\ loop' = t
            ELSE /\ workers' = [workers EXCEPT ![t] = Exited(@)]
                 /\ UNCHANGED <<tasks, loop, rng>>
    /\ UNCHANGED <<datasets, samples, resp, models, versions, inflight,
                 DATASETS, JOBS, jobs>>

temp_training_worker_epoch(t) ==
    /\ workers[t].pc = "sleep"
    /\ workers[t].fn = "_temp_training_worker"
    /\ loop = 0
    /\ LET w == workers[t]
           entry == EpochEntry(w.i, w.hp.epochs, rng)
           history == Append(w.history, entry)
       IN /\ rng' = Advance(rng, 3)
          /\ \E ok \in BOOLEAN :
             IF ok
             THEN /\ tasks' = [tasks EXCEPT ![t] =
                        [@ EXCEPT !.progress = Progress(w.i, w.hp.epochs),
                                  !.message = EpochMessage(entry),
                                  !.history_json = JsonDumps(history)]]
                  /\ IF w.i + 1 < w.hp.epochs
                     THEN /\ workers' = [workers EXCEPT ![t] =
                                [@ EXCEPT !.i = w.i + 1, !.history = history]]
                          /\ loop' = 0
                     ELSE /\ workers' = [workers EXCEPT ![t] =
                                [@ EXCEPT !.pc = "final", !.i = w.i + 1,
                                          !.history = history]]
                          /\ loop' = t
             ELSE /\ workers' = [workers EXCEPT ![t] = Exited(@)]
                  /\ UNCHANGED <<tasks, loop>>
    /\ UNCHANGED <<datasets, samples, resp, models, versions, inflight,
                 DATASETS, JOBS, jobs>>

temp_training_worker_final(t) ==
    /\ workers[t].pc = "final"
    /\ workers[t].fn = "_temp_training_worker"
    /\ loop = t
    /\ \E ok \in BOOLEAN :
       IF ok
       THEN tasks' = [tasks EXCEPT ![t] =
                [@ EXCEPT !.state = "succeeded", !.ended_at = Now,
                          !.message = <<"Training completed">>,
                          !.metrics_json = JsonDumps(LastMetrics(workers[t].history))]]
       ELSE UNCHANGED tasks
    /\ workers' = [workers EXCEPT ![t] = Exited(@)]
    /\ loop' = 0
    /\ UNCHANGED <<datasets, samples, rng, resp, models, versions, inflight,
                 DATASETS, JOBS, jobs>>

\* history[-1] of an empty history raised IndexError: the except block, on a
\* session whose last commit succeeded
temp_training_worker_except(t) ==
    /\ workers[t].pc = "except"
    /\ workers[t].fn = "_temp_training_worker"
    /\ loop = t
    /\ \E ok \in BOOLEAN :
       IF ok /\ tasks[t] # NoTask
       THEN tasks' = [tasks EXCEPT ![t] =
                Failed(@, "Training failed: ", "list index out of range")]
       ELSE UNCHANGED tasks
    /\ workers' = [workers EXCEPT ![t] = Exited(@)]
    /\ loop' = 0
    /\ UNCHANGED <<datasets, samples, rng, resp, models, versions, inflight,
                 DATASETS, JOBS, jobs>>

\* abs(hash((row.model_tag, row.dataset_id))) % (2**32): within one process
\* a function of the pair
Ix(name) == CASE name = "d1" -> 1 [] name = "d2" -> 2
              [] name = "m1" -> 1 [] OTHER -> 0

SeedVal(model_tag, d) == 1000 + 10 * Ix(model_tag) + Ix(d)

\* (variant: the draws are taken from the generator as it stands)
EvaluationMetricsUnseeded(g, row) ==
    LET loss == [u |-> Draw(g)]
    IN [loss |-> loss,
        accuracy |-> [u |-> Draw(Advance(g, 1))],
        perplexity |-> [exp |-> loss],
        style_score |-> [u |-> Draw(Advance(g, 2))]]

\* random.seed(seed_val), then the draws loss, accuracy, style
EvaluationMetrics(g, row) ==
    LET s == Seeded(SeedVal(row.model_tag, row.dataset_id))
        loss == [u |-> Draw(s)]
    IN [loss |-> loss,
        accuracy |-> [u |-> Draw(Advance(s, 1))],
        perplexity |-> [exp |-> loss],
        style_score |-> [u |-> Draw(Advance(s, 2))]]

EvaluationRng(g, row) == Advance(Seeded(SeedVal(row.model_tag, row.dataset_id)), 3)

temp_evaluation_worker_start(t) ==
    /\ workers[t].pc = "scheduled"
    /\ workers[t].fn = "_temp_evaluation_worker"
    /\ loop = 0
    /\ IF tasks[t] = NoTask
       THEN /\ workers' = [workers EXCEPT ![t] = Exited(@)]
            /\ UNCHANGED tasks
       ELSE \E ok \in BOOLEAN :
            IF ok
            THEN /\ tasks' = [tasks EXCEPT ![t] = Running(@)]
                 /\ workers' = [workers EXCEPT ![t] = [@ EXCEPT !.pc = "sleep", !.i = 0]]
            ELSE /\ workers' = [workers EXCEPT ![t] = Exited(@)]
                 /\ UNCHANGED tasks
    /\ UNCHANGED <<datasets, samples, loop, rng, resp, models, versions, inflight,
                 DATASETS, JOBS, jobs>>

temp_evaluation_worker_step(t) ==
    /\ workers[t].pc = "sleep"
    /\ workers[t].fn = "_temp_evaluation_worker"
    /\ loop = 0
    /\ LET i == workers[t].i IN
       \E ok \in BOOLEAN :
       IF ok
       THEN /\ tasks' = [tasks EXCEPT ![t] =
                  [@ EXCEPT !.progress = Progress(i, steps),
                            !.message = <<"Evaluating", tasks[t].model_tag,
                                          tasks[t].dataset_id, i + 1, steps>>]]
            /\ IF i + 1 < steps
               THEN /\ workers' = [workers EXCEPT ![t] = [@ EXCEPT !.i = i + 1]]
                    /\ loop' = 0
               ELSE /\ workers' = [workers EXCEPT ![t] =
                          [@ EXCEPT !.pc = "final", !.i = i + 1]]
                    /\ loop' = t
       ELSE /\ workers' = [workers EXCEPT ![t] = Exited(@)]
            /\ UNCHANGED <<tasks, loop>>
    /\ UNCHANGED <<datasets, samples, rng, resp, models, versions, inflight,
                 DATASETS, JOBS, jobs>>

temp_evaluation_worker_final(t) ==
    /\ workers[t].pc = "final"
    /\ workers[t].fn = "_temp_evaluation_worker"
    /\ loop = t
    /\ rng' = EvaluationRng(rng, tasks[t])
    /\ \E ok \in BOOLEAN :
       IF ok
       THEN tasks' = [tasks EXCEPT ![t] =
                [@ EXCEPT !.metrics_json = JsonDumps(EvaluationMetrics(rng, tasks[t])),
                          !.state = "succeeded",
                          !.message = <<"Evaluation completed">>,
                          !.ended_at = Now]]
       ELSE UNCHANGED tasks
    /\ workers' = [workers EXCEPT ![t] = Exited(@)]
    /\ loop' = 0
    /\ UNCHANGED <<datasets, samples, resp, models, versions, inflight,
                 DATASETS, JOBS, jobs>>

----------------------------------------------------------------------------
(* routes/generate.py: a coroutine handler that reseeds the same generator *)

generate_text(seed, num_candidates) ==
    /\ loop = 0
    /\ rng' = Advance(Seeded(seed), 2 * num_candidates)
    /\ resp' = [op |-> "generate_text", code |-> 200,
                body |-> [c \in 1 .. num_candidates |->
                            [text |-> <<seed, 2 * c - 1>>, score |-> <<seed, 2 * c>>]]]
    /\ UNCHANGED <<datasets, samples, tasks, workers, loop, models, versions, inflight,
                 DATASETS, JOBS, jobs>>

----------------------------------------------------------------------------
(* routes/models.py.  models/db.py writes Model and ModelVersion with def: *)
(* they are plain functions, not mapped classes, and no table stands       *)
(* behind them.  Every handler of this router starts with select(Model),   *)
(* which raises ArgumentError for anything that is not a mapped class: the *)
(* request ends in a 500 before the session is used.  What follows that    *)
(* statement in each handler is written out below as the code has it.      *)

ModelIds == {"npc"}
VersionIds == {1}
\* active_version_id: Optional[int] = None
NoVersion == 0

\* the classes of models/db.py declared with table=True
MappedClasses == {"Dataset", "DatasetSample", "Task"}

\* select(entity), session.get(entity, pk): possible for a mapped class only
Selectable(entity) == entity \in MappedClasses

\* select(Model).where(Model.model_id == model_id) ... .first()
ModelById(model_id) ==
    IF \E m \in models : m.model_id = model_id
    THEN CHOOSE m \in models : m.model_id = model_id
    ELSE NoRow

\* session.get(ModelVersion, version_id), then the check of its model_fk
VersionOf(m, version_id) ==
    IF \E v \in versions : v.id = version_id /\ v.model_fk = m.id
    THEN CHOOSE v \in versions : v.id = version_id
    ELSE NoRow

create_model(model_id, active_version_id) ==
    /\ IF ~Selectable("Model")
       THEN /\ resp' = [op |-> "create_model", model_id |-> model_id, code |-> 500]
            /\ UNCHANGED models
       ELSE IF ModelById(model_id) # NoRow
       THEN /\ resp' = [op |-> "create_model", model_id |-> model_id, code |-> 409]
            /\ UNCHANGED models
       ELSE /\ models' = models \cup
                  {[id |-> NextId(models), model_id |-> model_id,
                    active_version_fk |-> active_version_id]}
            /\ resp' = [op |-> "create_model", model_id |-> model_id, code |-> 200]
    /\ UNCHANGED <<datasets, samples, tasks, workers, loop, rng, versions, inflight,
                 DATASETS, JOBS, jobs>>

update_model(model_id, active_version_id) ==
    /\ IF ~Selectable("Model")
       THEN /\ resp' = [op |-> "update_model", model_id |-> model_id, code |-> 500]
            /\ UNCHANGED models
       ELSE IF ModelById(model_id) = NoRow
       THEN /\ resp' = [op |-> "update_model", model_id |-> model_id, code |-> 404]
            /\ UNCHANGED models
       ELSE LET m == ModelById(model_id)
                new == IF active_version_id # NoVersion
                       THEN [m EXCEPT !.active_version_fk = active_version_id]
                       ELSE m
            IN /\ models' = (models \ {m}) \cup {new}
               /\ resp' = [op |-> "update_model", model_id |-> model_id,
                           code |-> 200]
    /\ UNCHANGED <<datasets, samples, tasks, workers, loop, rng, versions, inflight,
                 DATASETS, JOBS, jobs>>

delete_model(model_id) ==
    /\ IF ~Selectable("Model")
       THEN /\ resp' = [op |-> "delete_model", model_id |-> model_id, code |-> 500]
            /\ UNCHANGED <<models, versions>>
       ELSE IF ModelById(model_id) = NoRow
       THEN /\ resp' = [op |-> "delete_model", model_id |-> model_id, code |-> 404]
            /\ UNCHANGED <<models, versions>>
       ELSE LET m == ModelById(model_id)
            IN /\ versions' = {v \in versions : v.model_fk # m.id}
               /\ models' = models \ {m}
               /\ resp' = [op |-> "delete_model", model_id |-> model_id,
                           code |-> 200]
    /\ UNCHANGED <<datasets, samples, tasks, workers, loop, rng, inflight,
                 DATASETS, JOBS, jobs>>

promote_version(model_id, version_id) ==
    /\ IF ~Selectable("Model")
       THEN /\ resp' = [op |-> "promote_version", model_id |-> model_id,
                        code |-> 500]
            /\ UNCHANGED models
       ELSE IF \/ ModelById(model_id) = NoRow
               \/ VersionOf(ModelById(model_id), version_id) = NoRow
       THEN /\ resp' = [op |-> "promote_version", model_id |-> model_id,
                        code |-> 404]
            /\ UNCHANGED models
       ELSE LET m == ModelById(model_id)
            IN /\ models' = (models \ {m}) \cup
                     {[m EXCEPT !.active_version_fk = version_id]}
               /\ resp' = [op |-> "promote_version", model_id |-> model_id,
                           code |-> 200]
    /\ UNCHANGED <<datasets, samples, tasks, workers, loop, rng, versions, inflight,
                 DATASETS, JOBS, jobs>>

\* Past the two lookups the handler reads req.version_tag, a field
\* TrainRequest does not have (AttributeError): no ModelVersion and no Task is
\* added, and _training_worker_for_model is never created.
train_model(model_id, d) ==
    /\ resp' = [op |-> "train_model", model_id |-> model_id, dataset_id |-> d,
                code |-> IF ~Selectable("Model") THEN 500
                         ELSE IF ModelById(model_id) = NoRow THEN 404
                         ELSE IF DatasetById(d) = NoRow THEN 404
                         ELSE 500]
    /\ UNCHANGED <<datasets, samples, tasks, workers, loop, rng, models, versions, inflight,
                 DATASETS, JOBS, jobs>>

list_versions(model_id) ==
    /\ resp' = [op |-> "list_versions", model_id |-> model_id,
                code |-> IF ~Selectable("Model") THEN 500
                         ELSE IF ModelById(model_id) = NoRow THEN 404
                         ELSE 200]
    /\ UNCHANGED <<datasets, samples, tasks, workers, loop, rng, models, versions, inflight,
                 DATASETS, JOBS, jobs>>

get_version(model_id, version_id) ==
    /\ resp' = [op |-> "get_version", model_id |-> model_id,
                code |-> IF ~Selectable("Model") THEN 500
                         ELSE IF \/ ModelById(model_id) = NoRow
                                 \/ VersionOf(ModelById(model_id), version_id) = NoRow
                              THEN 404
                         ELSE 200]
    /\ UNCHANGED <<datasets, samples, tasks, workers, loop, rng, models, versions, inflight,
                 DATASETS, JOBS, jobs>>

ModelNext ==
    \/ \E m \in ModelIds, a \in VersionIds \cup {NoVersion} : create_model(m, a)
    \/ \E m \in ModelIds, a \in VersionIds \cup {NoVersion} : update_model(m, a)
    \/ \E m \in ModelIds : delete_model(m)
    \/ \E m \in ModelIds, v \in VersionIds : promote_version(m, v)
    \/ \E m \in ModelIds, d \in DatasetIds : train_model(m, d)
    \/ \E m \in ModelIds : list_versions(m)
    \/ \E m \in ModelIds, v \in VersionIds : get_version(m, v)
    \/ DataNext

ModelSpec == Init /\ [][ModelNext]_vars

----------------------------------------------------------------------------
(* main.py: the in-memory flavour.  Datasets and Jobs live in the dicts    *)
(* DATASETS and JOBS; a Job is changed in place by the coroutine run for   *)
(* it, from one await to the next, with no commit in between.              *)

\* Job(...) as start_training and start_evaluation build it
Job(job_id, type, message, model_tag, d, hp) ==
    [job_id |-> job_id, type |-> type, state |-> "queued",
     started_at |-> None, ended_at |-> None,
     progress |-> Zero, message |-> <<message>>,
     model_tag |-> model_tag, dataset_id |-> d, Hyperparameters |-> hp,
     metrics |-> EmptyDict, history |-> EmptyList]

main_create_dataset(d) ==
    /\ IF d \in DATASETS
       THEN /\ resp' = [op |-> "main.create_dataset", dataset_id |-> d, code |-> 409]
            /\ UNCHANGED DATASETS
       ELSE /\ DATASETS' = DATASETS \cup {d}
            /\ resp' = [op |-> "main.create_dataset", dataset_id |-> d, code |-> 200]
    /\ UNCHANGED <<datasets, samples, tasks, workers, loop, rng, models, versions,
                   inflight, JOBS, jobs>>

\* job_id = str(uuid.uuid4()).hex: a str has no attribute hex, so the handler
\* raises AttributeError before Job(...) is built: JOBS never gets an entry
\* and no coroutine is created.
main_start_training(d, hp) ==
    /\ loop = 0
    /\ resp' = [op |-> "main.start_training", dataset_id |-> d,
                code |-> IF d \notin DATASETS THEN 404 ELSE 500]
    /\ UNCHANGED <<datasets, samples, tasks, workers, loop, rng, models, versions,
                   inflight, DATASETS, JOBS, jobs>>

main_start_evaluation(model_tag, d) ==
    /\ loop = 0
    /\ resp' = [op |-> "main.start_evaluation", dataset_id |-> d,
                code |-> IF d \notin DATASETS THEN 404 ELSE 500]
    /\ UNCHANGED <<datasets, samples, tasks, workers, loop, rng, models, versions,
                   inflight, DATASETS, JOBS, jobs>>

get_training_job(j) ==
    /\ resp' = IF JOBS[j] = NoJob
               THEN [op |-> "get_training_job", job_id |-> j, code |-> 404]
               ELSE [op |-> "get_training_job", job_id |-> j, code |-> 200,
                     body |-> [state |-> JOBS[j].state,
                               progress |-> JOBS[j].progress]]
    /\ UNCHANGED <<datasets, samples, tasks, workers, loop, rng, models, versions,
                   inflight, DATASETS, JOBS, jobs>>

\* the except block of both coroutines
JobFailed(job, what, e) ==
    [job EXCEPT !.state = "failed", !.message = <<what, e>>, !.ended_at = Now]

\* _temp_training_job up to its first await; with no epoch the loop is
\* skipped and history[-1] raises IndexError at once
temp_training_job_start(j) ==
    /\ jobs[j] = "scheduled"
    /\ JOBS[j].type = "train"
    /\ loop = 0
    /\ LET hp == JOBS[j].Hyperparameters
           running == [JOBS[j] EXCEPT !.state = "running", !.started_at = Now]
       IN /\ rng' = Seeded(hp.seed)
          /\ IF hp.epochs >= 1
             THEN /\ JOBS' = [JOBS EXCEPT ![j] = running]
                  /\ jobs' = [jobs EXCEPT ![j] = "sleep"]
             ELSE /\ JOBS' = [JOBS EXCEPT ![j] =
                        JobFailed(running, "Training failed: ",
                                  "list index out of range")]
                  /\ jobs' = [jobs EXCEPT ![j] = "raised"]
    /\ UNCHANGED <<datasets, samples, tasks, workers, loop, resp, models, versions,
                   inflight, DATASETS>>

\* one epoch after its sleep; after the last one the coroutine goes on,
\* without an await, to the final metrics and the final state
temp_training_job_epoch(j) ==
    /\ jobs[j] = "sleep"
    /\ loop = 0
    /\ LET job == JOBS[j]
           hp == job.Hyperparameters
           epoch == Len(job.history)
           entry == EpochEntry(epoch, hp.epochs, rng)
           stepped == [job EXCEPT !.history = Append(@, entry),
                                  !.progress = Progress(epoch, hp.epochs),
                                  !.message = EpochMessage(entry)]
       IN /\ rng' = Advance(rng, 3)
          /\ IF epoch + 1 < hp.epochs
             THEN /\ JOBS' = [JOBS EXCEPT ![j] = stepped]
                  /\ UNCHANGED jobs
             ELSE /\ JOBS' = [JOBS EXCEPT ![j] =
                        [stepped EXCEPT !.metrics = LastMetrics(stepped.history),
                                        !.state = "succeded",
                                        !.ended_at = Now,
                                        !.message = <<"Training Completed">>]]
                  /\ jobs' = [jobs EXCEPT ![j] = "returned"]
    /\ UNCHANGED <<datasets, samples, tasks, workers, loop, resp, models, versions,
                   inflight, DATASETS>>

\* _temp_evaluation_job: job.stated_at = time.time() assigns a field Job does
\* not have, which pydantic refuses with ValueError; the except block runs
\* before the first await.
temp_evaluation_job(j) ==
    /\ jobs[j] = "scheduled"
    /\ JOBS[j].type = "evaluate"
    /\ loop = 0
    /\ JOBS' = [JOBS EXCEPT ![j] =
                  JobFailed([@ EXCEPT !.state = "running"], "error: ",
                            "\"Job\" object has no field \"stated_at\"")]
    /\ jobs' = [jobs EXCEPT ![j] = "raised"]
    /\ UNCHANGED <<datasets, samples, tasks, workers, loop, rng, resp, models,
                   versions, inflight, DATASETS>>

\* The coroutines applied to Jobs as the two start handlers build them
\* (the handlers themselves raise before they do).
JobInputs(j) ==
    {NoJob}
    \cup {Job(j, "train", "queued for training", DefaultModelTag, "d1",
              Hyperparameters(e, DefaultSeed)) : e \in EpochCounts}
    \cup {Job(j, "evaluate", "queued for evaluation", "m1", "d1", NoHp)}

JobInit ==
    /\ datasets = {}
    /\ samples = {}
    /\ tasks = [t \in TaskIds |-> NoTask]
    /\ workers = [t \in TaskIds |-> NoWorker]
    /\ loop = 0
    /\ rng = Seeded(OsSeed)
    /\ resp = NoResp
    /\ models = {}
    /\ versions = {}
    /\ inflight = [th \in Threads |-> Idle]
    /\ JOBS \in [JobIds -> UNION {JobInputs(j) : j \in JobIds}]
    /\ \A j \in JobIds : JOBS[j] \in JobInputs(j)
    /\ DATASETS = {JOBS[j].dataset_id : j \in {i \in JobIds : JOBS[i] # NoJob}}
    /\ jobs = [j \in JobIds |-> IF JOBS[j] = NoJob THEN "none" ELSE "scheduled"]

JobNext ==
    \/ \E d \in DatasetIds : main_create_dataset(d)
    \/ \E d \in DatasetIds, e \in EpochCounts :
          main_start_training(d, Hyperparameters(e, DefaultSeed))
    \/ \E m \in ModelTags, d \in DatasetIds : main_start_evaluation(m, d)
    \/ \E j \in JobIds : get_training_job(j)
    \/ \E j \in JobIds : temp_training_job_start(j)
    \/ \E j \in JobIds : temp_training_job_epoch(j)
    \/ \E j \in JobIds : temp_evaluation_job(j)

JobSpec == JobInit /\ [][JobNext]_vars

----------------------------------------------------------------------------
Next ==
    \/ \E d \in DatasetIds : create_dataset(d, None, FALSE)
    \/ \E d \in DatasetIds : delete_dataset(d)
    \/ \E d \in DatasetIds, e \in EpochCounts, s \in TrainSeeds :
          start_training(DefaultModelTag, d, Hyperparameters(e, s))
    \/ \E t \in TaskIds : get_training_task(t)
    \/ \E m \in ModelTags, d \in DatasetIds : start_evaluation(m, d)
    \/ \E t \in TaskIds : get_evaluation_task(t)
    \/ \E t \in TaskIds : temp_training_worker_start(t)
    \/ \E t \in TaskIds : temp_training_worker_epoch(t)
    \/ \E t \in TaskIds : temp_training_worker_final(t)
    \/ \E t \in TaskIds : temp_training_worker_except(t)
    \/ \E t \in TaskIds : temp_evaluation_worker_start(t)
    \/ \E t \in TaskIds : temp_evaluation_worker_step(t)
    \/ \E t \in TaskIds : temp_evaluation_worker_final(t)
    \/ \E n \in NumCandidates : generate_text(GenerateSeed, n)

Spec == Init /\ [][Next]_vars

\* The event loop runs every coroutine that is ready: a scheduled worker
\* starts, a sleeping one wakes up, one that holds the loop goes on.
WorkerStep(t) ==
    \/ temp_training_worker_start(t)
    \/ temp_training_worker_epoch(t)
    \/ temp_training_worker_final(t)
    \/ temp_training_worker_except(t)
    \/ temp_evaluation_worker_start(t)
    \/ temp_evaluation_worker_step(t)
    \/ temp_evaluation_worker_final(t)

FairSpec == Spec /\ \A t \in TaskIds : WF_vars(WorkerStep(t))

\* the handlers that change a Dataset or its samples, next to training tasks
\* of one epoch on that dataset
TaskDataNext ==
    \/ create_dataset("d1", None, FALSE)
    \/ delete_dataset("d1")
    \/ update_dataset("d1", "a")
    \/ create_sample("d1", "x")
    \/ \E sid \in 1 .. MaxSamples : update_sample("d1", sid, "y")
    \/ \E sid \in 1 .. MaxSamples : delete_sample("d1", sid)
    \/ start_training(DefaultModelTag, "d1", Hyperparameters(1, DefaultSeed))
    \/ \E t \in TaskIds : temp_training_worker_start(t)
    \/ \E t \in TaskIds : temp_training_worker_epoch(t)
    \/ \E t \in TaskIds : temp_training_worker_final(t)

TaskDataSpec == Init /\ [][TaskDataNext]_vars

TaskDataFairSpec == TaskDataSpec /\ \A t \in TaskIds : WF_vars(WorkerStep(t))

ModelFairSpec == ModelSpec /\ \A t \in TaskIds : WF_vars(WorkerStep(t))

----------------------------------------------------------------------------
(* Properties *)

IsTrain(t) == tasks[t] # NoTask /\ tasks[t].type = "train"
IsEvaluate(t) == tasks[t] # NoTask /\ tasks[t].type = "evaluate"
MetricsOf(t) == JsonLoads(tasks[t].metrics_json)
HistoryOf(t) == JsonLoads(tasks[t].history_json)
MetricKeys == {"loss", "accuracy", "perplexity", "style_score"}

\* C1: the persisted state of a task only moves queued -> running ->
\* succeeded or failed: a task is created queued, succeeded and failed are
\* entered from running only, and no step changes a terminal state or
\* removes a task.
C1_ForwardOnly ==
    [][\A t \in TaskIds :
        /\ tasks[t] = NoTask => tasks'[t].state \in {"none", "queued"}
        /\ tasks[t] # NoTask =>
             \/ tasks'[t].state = tasks[t].state
             \/ tasks[t].state = "queued" /\ tasks'[t].state = "running"
             \/ tasks[t].state = "running" /\ tasks'[t].state \in Terminal]_vars

C1_Witness ==
    \E t, u \in TaskIds : tasks[t].state = "succeeded" /\ tasks[u].state = "failed"

\* C2: a read returns the progress persisted at that moment, the persisted
\* progress of a task never decreases, and a task becomes succeeded only
\* from a running snapshot whose progress already is 1.0, which it keeps.
C2_ProgressMonotone ==
    [][/\ \A t \in TaskIds :
            /\ tasks[t] # NoTask =>
                 FracLeq(tasks[t].progress, tasks'[t].progress)
            /\ tasks[t].state # "succeeded" /\ tasks'[t].state = "succeeded" =>
                 /\ tasks[t].state = "running"
                 /\ tasks[t].progress = One
                 /\ tasks'[t].progress = One
       /\ resp' # resp /\ resp'.op = "get_task" /\ resp'.code = 200 =>
            resp'.body.progress = tasks[resp'.task_id].progress]_vars

C2_Witness ==
    /\ resp.op = "get_task" /\ resp.code = 200
    /\ resp.body.state = "running" /\ resp.body.progress = <<1, 2>>
    /\ tasks[resp.task_id].state = "succeeded"
    /\ tasks[resp.task_id].progress = One

\* What holds of every get and of every accepted submission: a get answers
\* 404 exactly for an identifier that was never persisted, and a submission
\* answers queued with progress 0.0 for a row it has persisted as such.
GetAndSubmitAnswers ==
    /\ resp' # resp /\ resp'.op = "get_task" =>
         /\ resp'.code = 404 <=> tasks[resp'.task_id] = NoTask
         /\ resp'.code = 200 =>
              resp'.body = task_to_response(tasks[resp'.task_id])
    /\ /\ resp' # resp
       /\ resp'.op \in {"start_training", "start_evaluation"}
       /\ resp'.code = 200
       => /\ resp'.body.state = "queued"
          /\ resp'.body.progress = Zero
          /\ tasks[resp'.body.task_id] = NoTask
          /\ tasks'[resp'.body.task_id].state = "queued"
          /\ tasks'[resp'.body.task_id].progress = Zero

\* the exchange that follows an accepted submission is a get of its task
GetFollowsSubmit ==
    /\ resp.op \in {"start_training", "start_evaluation"}
    /\ resp.code = 200
    /\ resp'.op = "get_task"
    /\ resp'.task_id = resp.body.task_id

\* C3 as stated: a get of a never persisted identifier answers 404, a
\* submission answers queued with progress 0.0, and so does the get of that
\* task issued right after the submission returned.
C3_GetAfterSubmitIsQueued ==
    [][/\ GetAndSubmitAnswers
       /\ GetFollowsSubmit =>
            /\ resp'.code = 200
            /\ resp'.body.state = "queued"
            /\ resp'.body.progress = Zero]_vars

\* C3 amended: a get of a never persisted identifier answers 404, a
\* submission answers queued with progress 0.0, and the get of that task
\* issued right after the submission returned finds the task: it reports
\* queued with progress 0.0 while the worker has not run, and otherwise the
\* state the worker has persisted by then.
C3_GetAfterSubmitIsFound ==
    [][/\ GetAndSubmitAnswers
       /\ GetFollowsSubmit =>
            /\ resp'.code = 200
            /\ resp'.body.state \in {"queued", "running"} \cup Terminal
            /\ workers[resp'.task_id].pc = "scheduled" =>
                 /\ resp'.body.state = "queued"
                 /\ resp'.body.progress = Zero]_vars

C3_Witness ==
    /\ resp.op = "get_task" /\ resp.code = 200
    /\ resp.body.state = "running" /\ resp.body.progress = Zero
    /\ workers[resp.task_id].pc = "sleep" /\ workers[resp.task_id].i = 0

\* C4: under fair scheduling of the workers, every persisted task
\* eventually is succeeded or failed.
C4_EveryTaskEnds ==
    \A t \in TaskIds : (tasks[t] # NoTask) ~> (tasks[t].state \in Terminal)

\* C5: once a worker's simulation has raised (history[-1] of a run with no
\* epoch), the next state persisted for its task is failed, with ended_at
\* set and the error text in the message, the rest of the row unchanged; a
\* training task with no epoch is never succeeded.
C5_ErrorMeansFailed ==
    [][\A t \in TaskIds :
        /\ workers[t].pc = "except" /\ tasks'[t] # tasks[t] =>
             tasks'[t] = [tasks[t] EXCEPT
                            !.state = "failed", !.ended_at = Now,
                            !.message = <<"Training failed: ",
                                          "list index out of range">>]
        /\ IsTrain(t) /\ ParseHp(tasks[t]).epochs < 1 =>
             /\ tasks'[t].state # "succeeded"
             /\ workers'[t].pc \notin {"sleep", "final"}]_vars

C5_Witness ==
    \E t \in TaskIds :
        /\ IsTrain(t) /\ ParseHp(tasks[t]).epochs = 0
        /\ tasks[t].state = "failed" /\ tasks[t].ended_at = Now
        /\ tasks[t].message = <<"Training failed: ", "list index out of range">>

\* C6: two training tasks with the same hyperparameters that both succeeded
\* have the same history and the same metrics.
C6_TrainingDeterministic ==
    \A t, u \in TaskIds :
        /\ IsTrain(t) /\ IsTrain(u)
        /\ tasks[t].state = "succeeded" /\ tasks[u].state = "succeeded"
        /\ tasks[t].hyperparameters_json = tasks[u].hyperparameters_json
        => /\ tasks[t].history_json = tasks[u].history_json
           /\ tasks[t].metrics_json = tasks[u].metrics_json

C8_MetricsAreLastEntry ==
    \A t \in TaskIds : IsTrain(t) =>
        LET n == ParseHp(tasks[t]).epochs IN
        /\ tasks[t].state = "succeeded" =>
             /\ n >= 1
             /\ Len(HistoryOf(t)) = n
             /\ DOMAIN MetricsOf(t) = MetricKeys
             /\ \A k \in MetricKeys : MetricsOf(t)[k] = HistoryOf(t)[n][k]
        /\ tasks[t].state \in {"queued", "running", "failed"} =>
             MetricsOf(t) = EmptyDict

C8_Witness ==
    \E t, u \in TaskIds :
        /\ IsTrain(t) /\ tasks[t].state = "succeeded" /\ Len(HistoryOf(t)) = 2
        /\ IsTrain(u) /\ tasks[u].state = "failed"

\* C9: create_dataset with an identifier that already exists answers 409
\* and changes neither the Dataset rows nor the DatasetSample rows.
C9_CreateExistingConflicts ==
    [][resp' # resp /\ resp'.op = "create_dataset"
       /\ DatasetById(resp'.dataset_id) # NoRow
       => /\ resp'.code = 409
          /\ datasets' = datasets
          /\ samples' = samples]_vars

C9_Witness ==
    /\ resp.op = "create_dataset" /\ resp.code = 409
    /\ DatasetById(resp.dataset_id).description = "a"
    /\ SamplesOf(DatasetById(resp.dataset_id).id) # {}

\* C10: once delete_dataset has answered for a dataset that existed, its
\* Dataset row is gone, so that get_dataset_samples answers 404; and no
\* DatasetSample ever refers to a Dataset that does not exist.
C10_DeleteRemovesSamples ==
    /\ resp.op = "delete_dataset" /\ resp.code # 404 =>
         DatasetById(resp.dataset_id) = NoRow
    /\ \A r \in samples : \E ds \in datasets : ds.id = r.dataset_fk

\* the Task rows that train_model writes for a version: their message names
\* the model and the version's key
TasksOfVersion(v) ==
    {t \in TaskIds :
        /\ IsTrain(t)
        /\ \E m \in models :
              /\ m.id = v.model_fk
              /\ tasks[t].model_tag = m.model_id
              /\ tasks[t].message[1] =
                    <<"Queued training for model", m.model_id, v.id>>}

\* C12: when train_model returns anything but NotFound it has persisted a
\* new ModelVersion in state queued; and no request handler changes or
\* removes an existing ModelVersion, except delete_model which removes the
\* versions of the model it deletes.
C12_TrainPersistsQueuedVersion ==
    [][resp' # resp =>
        /\ resp'.op = "train_model" /\ resp'.code # 404 =>
             \E v \in versions' \ versions : v.state = "queued"
        /\ resp'.op # "delete_model" => versions \subseteq versions']_vars

\* C13: train_model leaves a Task for the version it creates, and once the
\* version's persisted state is running, succeeded or failed the state of
\* that Task eventually is the same.
C13_TaskMirrorsVersion ==
    /\ [][resp' # resp /\ resp'.op = "train_model" /\ resp'.code # 404 =>
            \E t \in TaskIds :
                /\ tasks[t] = NoTask /\ tasks'[t] # NoTask
                /\ tasks'[t].type = "train" /\ tasks'[t].state = "queued"
                /\ tasks'[t].model_tag = resp'.model_id]_vars
    /\ \A id \in VersionIds, st \in {"running", "succeeded", "failed"} :
          (\E v \in versions : v.id = id /\ v.state = st)
          ~> (\E v \in versions :
                 /\ v.id = id
                 /\ \E t \in TasksOfVersion(v) : tasks[t].state = st)

\* C15: a start_training or start_evaluation call that names a dataset_id
\* with no Dataset record answers 404, leaves the Task records as they were
\* and creates no worker; a submission that is accepted names a Dataset
\* that exists.
C15_UnknownDatasetNotFound ==
    [][/\ \A d \in DatasetIds : DatasetById(d) = NoRow =>
            /\ (\E e \in EpochCounts, s \in TrainSeeds :
                   start_training(DefaultModelTag, d, Hyperparameters(e, s)))
               => resp'.code = 404 /\ tasks' = tasks /\ workers' = workers
            /\ (\E m \in ModelTags : start_evaluation(m, d))
               => resp'.code = 404 /\ tasks' = tasks /\ workers' = workers
       /\ /\ resp' # resp
          /\ resp'.op \in {"start_training", "start_evaluation"}
          => IF resp'.code = 404
             THEN tasks' = tasks /\ workers' = workers
             ELSE DatasetById(tasks'[resp'.body.task_id].dataset_id) # NoRow]_vars

C15_Witness ==
    /\ resp.op \in {"start_training", "start_evaluation"}
    /\ resp.code = 404
    /\ \E d \in DatasetIds : DatasetById(d) = NoRow
    /\ \E t \in TaskIds : tasks[t] # NoTask /\ workers[t].pc = "sleep"

\* the history a training task with hyperparameters hp has after k epochs
\* when nothing else touches the generator between its seeding and its draws
RECURSIVE AloneHistory(_, _)
AloneHistory(hp, k) ==
    IF k = 0 THEN << >>
    ELSE Append(AloneHistory(hp, k - 1),
                EpochEntry(k - 1, hp.epochs, Advance(Seeded(hp.seed), 3 * (k - 1))))

\* C16: whatever runs concurrently on the loop, a training task that
\* succeeded has the history and the metrics it produces when it runs
\* alone with the same hyperparameters.
C16_SameAsRunAlone ==
    \A t \in TaskIds : IsTrain(t) /\ tasks[t].state = "succeeded" =>
        LET hp == ParseHp(tasks[t])
            alone == AloneHistory(hp, hp.epochs)
        IN /\ HistoryOf(t) = alone
           /\ MetricsOf(t) = LastMetrics(alone)

\* what C17 asks of one persisted snapshot of a training task
HistorySnapshotOk(row) ==
    LET h == JsonLoads(row.history_json)
        n == ParseHp(row).epochs
        k == Len(h)
    IN /\ k <= n \/ k = 0
       /\ \A i \in 1 .. k : h[i].epoch = i
       /\ row.progress = IF k = 0 THEN Zero ELSE Frac(k, n)

\* C17: every persisted snapshot of a training task with N epochs holds the
\* entries of the epochs 1..k in order for some 0 <= k <= N, with progress
\* k/N (0.0 when k = 0); a step that changes the history appends exactly
\* one entry to it, and only the task's own worker changes the row.
C17_HistoryGrowsByOne ==
    /\ [](\A t \in TaskIds : IsTrain(t) => HistorySnapshotOk(tasks[t]))
    /\ [][\A t \in TaskIds : IsTrain(t) /\ tasks'[t] # tasks[t] =>
            /\ workers[t].fn = "_temp_training_worker"
            /\ workers[t].pc \notin {"none", "exited"}
            /\ workers'[t] # workers[t]
            /\ \A u \in TaskIds \ {t} : workers'[u] = workers[u]
            /\ HistoryOf(t)' # HistoryOf(t) =>
                 /\ Len(HistoryOf(t)') = Len(HistoryOf(t)) + 1
                 /\ SubSeq(HistoryOf(t)', 1, Len(HistoryOf(t))) = HistoryOf(t)
                 /\ workers[t].pc = "sleep"]_vars

C17_Witness ==
    \E t, u \in TaskIds :
        /\ t # u /\ IsTrain(t) /\ IsTrain(u)
        /\ ParseHp(tasks[t]).epochs = 2 /\ Len(HistoryOf(t)) = 2
        /\ tasks[t].progress = One
        /\ ParseHp(tasks[u]).epochs = 2 /\ Len(HistoryOf(u)) = 1
        /\ tasks[u].progress = <<1, 2>>

\* C18: in every persisted snapshot started_at is set exactly when the
\* state is not queued and ended_at exactly when the state is succeeded or
\* failed; started_at changes only in the update that makes the task
\* running, which comes before the first simulated step.
C18_Timestamps ==
    /\ [](\A t \in TaskIds : tasks[t] # NoTask =>
            /\ tasks[t].started_at # None <=> tasks[t].state # "queued"
            /\ tasks[t].ended_at # None <=> tasks[t].state \in Terminal)
    /\ [][\A t \in TaskIds :
            tasks[t] # NoTask /\ tasks'[t].started_at # tasks[t].started_at =>
                /\ tasks[t].state = "queued" /\ tasks'[t].state = "running"
                /\ workers[t].pc = "scheduled"
                /\ tasks'[t].progress = Zero
                /\ tasks'[t].history_json = JsonDumps(EmptyList)]_vars

C18_Witness ==
    \E t, u \in TaskIds :
        /\ tasks[t].state = "running" /\ tasks[t].started_at = Now
        /\ tasks[t].ended_at = None /\ tasks[t].progress # Zero
        /\ tasks[u].state \in Terminal /\ tasks[u].ended_at = Now

\* C19: the progress of an evaluation task moves 0, 1/5, 2/5, 3/5, 4/5, 1
\* one step at a time, while the task is running; it becomes succeeded only
\* with progress 1; its history is empty in every snapshot, and its metrics
\* are empty in every snapshot but the succeeded one, which has exactly the
\* keys loss, accuracy, perplexity and style_score.
C19_EvaluationSteps ==
    /\ [](\A t \in TaskIds : IsEvaluate(t) =>
            /\ HistoryOf(t) = EmptyList
            /\ \E k \in 0 .. 5 : tasks[t].progress = Frac(k, 5)
            /\ tasks[t].state = "queued" => tasks[t].progress = Zero
            /\ IF tasks[t].state = "succeeded"
               THEN /\ DOMAIN MetricsOf(t) = MetricKeys
                    /\ tasks[t].progress = One
               ELSE MetricsOf(t) = EmptyDict)
    /\ [][\A t \in TaskIds :
            IsEvaluate(t) /\ tasks'[t].progress # tasks[t].progress =>
                /\ tasks[t].state = "running" /\ tasks'[t].state = "running"
                /\ \E k \in 0 .. 4 : /\ tasks[t].progress = Frac(k, 5)
                                     /\ tasks'[t].progress = Frac(k + 1, 5)]_vars

C19_Witness ==
    \E t, u \in TaskIds :
        /\ IsEvaluate(t) /\ tasks[t].state = "succeeded"
        /\ IsEvaluate(u) /\ tasks[u].state = "running"
        /\ tasks[u].progress = Frac(3, 5)

\* C20: no two Dataset records share a dataset_id, and every create_dataset
\* that is answered either has created the one record of its identifier or
\* found the identifier taken, and is then answered 409 - also when the
\* identifier was taken between its own lookup and its commit.
C20_OneDatasetPerId ==
    /\ [](\A r, q \in datasets : r.dataset_id = q.dataset_id => r = q)
    /\ [][resp' # resp /\ resp'.op = "create_dataset" =>
            IF DatasetById(resp'.dataset_id) # NoRow
            THEN resp'.code = 409 /\ datasets' = datasets
            ELSE /\ datasets' # datasets
                 /\ \E r \in datasets' : /\ r.dataset_id = resp'.dataset_id
                                         /\ datasets' = datasets \cup {r}]_vars

\* the handlers of routes/datasets.py that change a Dataset or its samples
DatasetWrites ==
    {"delete_dataset", "update_dataset", "create_sample", "update_sample",
     "delete_sample"}

C22_CreateWithSamplesAtomic ==
    [][\A d \in DatasetIds, desc \in Descriptions :
        create_dataset(d, desc, TRUE) =>
            \/ datasets' = datasets /\ samples' = samples
            \/ \E r \in datasets' \ datasets :
                  /\ r.dataset_id = d
                  /\ \E x \in samples' \ samples : x.dataset_fk = r.id]_vars

Canonical == {"queued", "running", "succeeded", "failed"}

====
